---- MODULE Spec2Model ----
(***************************************************************************)
(* A model of the autopoiesis simulation (app.py, unity.py, boid.py,       *)
(* goal.py): the World of Unities ("Groups") of Boids ("Agents") that      *)
(* metabolise Goals ("Resources"), split, die and are drawn each frame.    *)
(*                                                                         *)
(* Representation.  Python objects keep their identity: every Goal, Unity  *)
(* and membership list lives in a heap (goal, unity, lists) and is named   *)
(* by an id; a Boid is a record that carries its id.  Lists are 1-based    *)
(* here and 0-based in the source.  Floats are kept in fixed point: a      *)
(* velocity, an acceleration, a perceived center and a proposed position   *)
(* are counted in 1/FP of a pixel and a division rounds toward zero;       *)
(* pygame.Rect coordinates are integers (an assigned float is truncated).  *)
(* A Unity's radius is an exact fraction <<numerator, denominator>>.       *)
(*                                                                         *)
(* Steps.  main's loop body is cut into steps: MainSeed, UpdateGoals, then *)
(* for each Unity that the loop of update_boid_positions binds NextUnity,  *)
(* SelfReproduction (when it has SPLIT_SIZE Boids), Update, one MoveBoid   *)
(* for each Boid and EndMove, then EndPass and DrawWindow.  An unhandled   *)
(* exception ends the program (phase "crashed").                           *)
(*                                                                         *)
(* Random draws are sampled from small sets; the Boids created by one      *)
(* metabolism take the same draw of health and heading.                    *)
(***************************************************************************)
EXTENDS Integers, Sequences, FiniteSets, TLC

\* ---------------------------------------------------------------- constants
WIDTH == 1800
HEIGHT == 1000
INIT_GOALS == 5
SPACE == 25
BOID_EXT_WIDTH == 11
BOID_EXT_HEIGHT == 30
MAX_VEL == 2
GOAL_RADIUS == 10
GOAL_HEALTH == 1000
SPENT_HEALTH == 250
SPLIT_SIZE == 20
SPAWN_COUNT == 3
REPLENISH_AT == 3
REPLENISH_MAX == 2
UNITY_RADIUS == 5
BOID_X == 300
BOID_Y == 300
SEED_EVERY == 10
SEED_UNTIL == 100
FP == 10
MIN_VEL_FP == 5
ANGULAR_V == 7
TWO_PI == 628
COHESION_DIV == 100
PURSUE_DIV == 40
OBSTACLE_DAMP == 10

\* ------------------------------------------------------------------- bounds
\* number of frames of the main loop that are explored
MaxTicks == 1
\* ids available for live Goal, Unity, list objects (freed ids are reused)
MaxGoalIds == 8
MaxUnityIds == 4
MaxListIds == 6
\* one more than the largest Boid id ever handed out
MaxBoidId == 40

GoalIds == 1..MaxGoalIds
UnityIds == 1..MaxUnityIds
\* list 0 is the list object of the default argument boids=[] of Unity.__init__
ListIds == 0..MaxListIds

\* ------------------------------------------------------------ random inputs
\* Goal(): randint(100,1500) x randint(100,800), sampled
GoalSpots == <<<<300, 300>>, <<1500, 800>>>>
\* Boid(): randint(1000,3000), sampled
BoidHealths == {1000, 3000}
\* Boid(): random() radians in [0,1), in 1/100 rad, sampled
BoidRadians == {50}

\* ------------------------------------------------------------------ helpers
Abs(a) == IF a < 0 THEN -a ELSE a

Sgn(a) == IF a < 0 THEN -1 ELSE IF a > 0 THEN 1 ELSE 0

\* float division / int() / Rect assignment: rounding toward zero
TruncDiv(a, b) == IF a >= 0 THEN a \div b ELSE -((-a) \div b)

Min2(a, b) == IF a < b THEN a ELSE b

Max2(a, b) == IF a > b THEN a ELSE b

\* x in range(lo, hi) for a fixed-point x: only an integral x can be equal to
\* an element of the range
InRangeFP(x, lo, hi) == x % FP = 0 /\ lo <= x \div FP /\ x \div FP < hi

\* any(v in range(lo2, hi2) for v in range(lo1, hi1))
RangesMeet(lo1, hi1, lo2, hi2) == Max2(lo1, lo2) < Min2(hi1, hi2)

\* list.index / "in" on a list of ids
InSeq(e, s) == \E k \in 1..Len(s) : s[k] = e

\* list.remove(e): drops the first occurrence
RemoveFirst(s, e) ==
  LET k == CHOOSE j \in 1..Len(s) : s[j] = e /\ \A m \in 1..(j-1) : s[m] # e
  IN  SubSeq(s, 1, k-1) \o SubSeq(s, k+1, Len(s))

\* mutant: the index is one too high
PopNext(s, i) == IF i < Len(s) THEN SubSeq(s, 1, i) \o SubSeq(s, i + 2, Len(s))
                 ELSE SubSeq(s, 1, i - 1)

\* list.pop(i) with the 1-based index i
PopAt(s, i) == SubSeq(s, 1, i-1) \o SubSeq(s, i+1, Len(s))

\* s[a:b] with the 0-based bounds of the source, 0 <= a
Slice(s, a, b) == SubSeq(s, a + 1, Min2(b, Len(s)))

\* ------------------------------------------------------------------- state
VARIABLES
  goals,      \* app.goals: the active pool, a list of Goal ids
  goal,       \* the Goal objects: id -> [circleX, circleY, health]
  unities,    \* app.unities: the list of Unity ids
  unity,      \* the Unity objects: id -> [boids (list id), goal, radius, ...]
  lists,      \* the membership list objects: list id -> sequence of Boids
  PURSUE,     \* Unity.PURSUE
  counter,    \* main: counter (saturates once past SEED_UNTIL)
  ticks,      \* frames completed
  nextBoid,   \* the next fresh Boid id
  phase,      \* main loop position: "main", "goals", "boids", "draw", "crashed"
  idx,        \* update_boid_positions: 0-based position of the list iterator
  cur,        \* update_boid_positions: the Unity bound to the loop variable
  stage,      \* position inside one loop body: "next", "split", "move"
  bidx,       \* Unity.move: 0-based position of the iterator over self.boids
  count0,     \* the pool's length when the current frame began (history)
  frame,      \* what the current frame has done so far (history)
  ev          \* what the last step did (history, read by the properties)

vars == <<goals, goal, unities, unity, lists, PURSUE, counter, ticks, nextBoid,
          phase, idx, cur, stage, bidx, count0, frame, ev>>

\* --------------------------------------------------------------- the objects
\* Goal.__init__
NewGoal(spot) == [circleX |-> spot[1], circleY |-> spot[2], health |-> GOAL_HEALTH]

NoGoal == [circleX |-> 0, circleY |-> 0, health |-> 0]

\* Boid.__init__(x, y): velocity is MIN_VEL, center is the start position
NewBoid(id, x, y, h, rad) ==
  [id |-> id, x |-> x, y |-> y, vx |-> MIN_VEL_FP, vy |-> MIN_VEL_FP,
   ax |-> 0, ay |-> 0, cx |-> x * FP, cy |-> y * FP, health |-> h, rad |-> rad]

\* Unity.__init__(goal, boids, radius, generation)
NewUnity(g, l, gen) ==
  [boids |-> l, goal |-> g, radius |-> <<UNITY_RADIUS, 1>>, generation |-> gen,
   splits |-> 0, metabolised |-> 0]

NoUnity == [boids |-> 0, goal |-> 0, radius |-> <<0, 1>>, generation |-> 0,
            splits |-> 0, metabolised |-> 0]

\* Unity.size
Size(u) == Len(lists[unity[u].boids])

Members(u) == lists[unity[u].boids]

BoidIdsOf(s) == {s[k].id : k \in 1..Len(s)}

\* mutant: the size is not halved
WholeSize(L) == <<Len(L), 1>>

\* self.radius = self.size()/2 for the membership L (lines 225 and 254)
HalfSize(L) == <<Len(L), 2>>

\* ids of objects that nothing refers to any more are handed out again
FreeGoalIds(pool, un) == {g \in GoalIds : ~InSeq(g, pool) /\ \A u \in UnityIds : un[u].goal # g}

\* ------------------------------------------------------- Boid (boid.py)
\* mutant: only a velocity above MAX_VEL is limited
LimitVelocityAbove(v) == IF v > MAX_VEL * FP THEN MAX_VEL * FP ELSE v

\* Boid.limit_velocity, one component
LimitVelocity(v) == IF Abs(v) > MAX_VEL * FP THEN Sgn(v) * MAX_VEL * FP ELSE v

\* ------------------------------------------------- Unity forces (unity.py)
RECURSIVE SumSeq(_)
SumSeq(s) == IF s = <<>> THEN 0 ELSE Head(s) + SumSeq(Tail(s))

RECURSIVE Concat(_)
Concat(ss) == IF ss = <<>> THEN <<>> ELSE Head(ss) \o Concat(Tail(ss))

\* the Boids that "for flock in flocks: for boid in flock.boids" visits, when
\* the list object l currently holds L
FlockBoids(l, L) ==
  Concat([k \in 1..Len(unities) |->
            IF unity[unities[k]].boids = l THEN L ELSE lists[unity[unities[k]].boids]])

\* Unity.separation: norm(position2 - position1) < SPACE on integer positions
Near(b, o) == (o.x - b.x) * (o.x - b.x) + (o.y - b.y) * (o.y - b.y) < SPACE * SPACE

Separation(b, all) ==
  [x |-> FP * SumSeq([k \in 1..Len(all) |->
                 IF all[k].id # b.id /\ Near(b, all[k]) THEN -(all[k].x - b.x) ELSE 0]),
   y |-> FP * SumSeq([k \in 1..Len(all) |->
                 IF all[k].id # b.id /\ Near(b, all[k]) THEN -(all[k].y - b.y) ELSE 0])]

\* mutant: the test of size() == 1 is missing
CohesionUnguarded(b, L) ==
  LET sx == b.cx + SumSeq([k \in 1..Len(L) |-> IF L[k].id # b.id THEN FP * L[k].x ELSE 0])
      sy == b.cy + SumSeq([k \in 1..Len(L) |-> IF L[k].id # b.id THEN FP * L[k].y ELSE 0])
      cx == TruncDiv(sx, Len(L))
      cy == TruncDiv(sy, Len(L))
  IN  [x |-> TruncDiv(cx - FP * b.x, COHESION_DIV),
       y |-> TruncDiv(cy - FP * b.y, COHESION_DIV), cx |-> cx, cy |-> cy]

\* Unity.cohesion for current_boid b in a Unity whose membership is L (not
\* empty): the force and the center it leaves in b
Cohesion(b, L) ==
  IF Len(L) = 1
    THEN [x |-> 0, y |-> 0, cx |-> b.cx, cy |-> b.cy]
    ELSE LET sx == b.cx + SumSeq([k \in 1..Len(L) |-> IF L[k].id # b.id THEN FP * L[k].x ELSE 0])
             sy == b.cy + SumSeq([k \in 1..Len(L) |-> IF L[k].id # b.id THEN FP * L[k].y ELSE 0])
             cx == TruncDiv(sx, Len(L))
             cy == TruncDiv(sy, Len(L))
         IN  [x |-> TruncDiv(cx - FP * b.x, COHESION_DIV),
              y |-> TruncDiv(cy - FP * b.y, COHESION_DIV), cx |-> cx, cy |-> cy]

\* Unity.pursue for a Boid whose center is (cx, cy), toward Goal object g
Pursue(cx, cy, g) ==
  [x |-> TruncDiv(FP * g.circleX - cx, PURSUE_DIV),
   y |-> TruncDiv(FP * g.circleY - cy, PURSUE_DIV)]

\* the body of the loop of Unity.update after the health check, for Boid b of
\* a Unity with target g and membership L: lines 255-260
Steer(b, L, all, g) ==
  LET v1 == Cohesion(b, L)
      v2 == Separation(b, all)
      v3 == Pursue(v1.cx, v1.cy, g)
      accX == v1.x + v2.x + (IF PURSUE THEN v3.x ELSE 0)
      accY == v1.y + v2.y + (IF PURSUE THEN v3.y ELSE 0)
  IN  [b EXCEPT !.cx = v1.cx, !.cy = v1.cy, !.ax = accX, !.ay = accY,
                !.vx = LimitVelocity(b.vx + accX), !.vy = LimitVelocity(b.vy + accY)]

\* random() in [0,1), in whole health units: a draw is DRAW_LO or DRAW_HI.  The
\* choice is explored for the Boids that the draw can kill (health <= DRAW_HI);
\* the others lose DRAW_HI.
DRAW_LO == 0
DRAW_HI == 1

Frail(L) == {L[k].id : k \in {j \in 1..Len(L) : L[j].health <= DRAW_HI}}

\* Unity.update: "for i, boid in enumerate(self.boids)" from the 1-based
\* position i on, over the list object l holding L.  lucky: the Boids that draw
\* DRAW_LO.  st.L the list, st.radius the radius, st.visited the ids of the
\* Boids the loop reached (health decremented, forces computed), in order;
\* st.forces what lines 251-260 computed for each of them: health its health
\* after line 251, n the size of the Unity after line 254, member whether the
\* Boid was still in the list, (x, y)
\* the force of cohesion, (cx0, cy0) and (cx, cy) its center before and after.
RECURSIVE UpdateLoop(_, _, _, _, _)
UpdateLoop(st, i, l, g, lucky) ==
  IF i > Len(st.L) THEN st
  ELSE LET b == st.L[i]
           h == b.health - (IF b.id \in lucky THEN DRAW_LO ELSE DRAW_HI)
           dead == h <= 0
           \* self.boids.pop(i); self.radius = self.size()/2
           L0 == [st.L EXCEPT ![i].health = h]
           L1 == IF dead THEN PopAt(L0, i) ELSE L0
           r1 == IF dead THEN HalfSize(L1) ELSE st.radius
           \* the forces are computed for boid also after it was popped; with
           \* no member left cohesion divides by zero (numpy: inf, no error) in
           \* an object that nothing refers to any more
           L2 == IF dead THEN L1
                 ELSE [L1 EXCEPT ![i] = Steer(L1[i], L1, FlockBoids(l, L1), g)]
           v1 == IF L1 = <<>> THEN [x |-> 0, y |-> 0, cx |-> b.cx, cy |-> b.cy]
                 ELSE Cohesion(b, L1)
           f == [id |-> b.id, health |-> h, n |-> Len(L1), member |-> ~dead,
                 x |-> v1.x, y |-> v1.y,
                 cx0 |-> b.cx, cy0 |-> b.cy, cx |-> v1.cx, cy |-> v1.cy]
       IN  UpdateLoop([L |-> L2, radius |-> r1, visited |-> Append(st.visited, b.id),
                       forces |-> Append(st.forces, f)],
                      i + 1, l, g, lucky)

\* ------------------------------------------------- Unity.move (unity.py)
\* Unity.check_obstacles for the proposed (x, y) of Boid b against target g:
\* the position to move to and the velocity it leaves in b
CheckObstacles(x, y, b, g) ==
  IF /\ InRangeFP(x, g.circleX - GOAL_RADIUS * 2, g.circleX + GOAL_RADIUS * 2)
     /\ InRangeFP(y, g.circleY - GOAL_RADIUS, g.circleY + GOAL_RADIUS)
    THEN [x |-> x - FP * (g.circleX - b.x), y |-> y - FP * (g.circleY - b.y),
          vx |-> TruncDiv(-b.vx, OBSTACLE_DAMP), vy |-> TruncDiv(-b.vy, OBSTACLE_DAMP)]
    ELSE [x |-> x, y |-> y, vx |-> b.vx, vy |-> b.vy]

\* mutant: the tests of the right and bottom edges are missing
CheckBoundariesOpen(x, y, vx, vy) ==
  LET s1 == IF x < 0 THEN [x |-> 0, y |-> y, vx |-> -vx, vy |-> vy]
                     ELSE [x |-> x, y |-> y, vx |-> vx, vy |-> vy]
  IN  IF s1.y < 0 THEN [s1 EXCEPT !.y = 0, !.vx = -s1.vy] ELSE s1

\* Unity.check_boundaries, the four tests in turn.  In the third the source
\* indexes the velocity with the coordinate y, which is 0 by then:
\* velocity[0] = -velocity[1].
CheckBoundaries(x, y, vx, vy) ==
  LET s1 == IF x < 0 THEN [x |-> 0, y |-> y, vx |-> -vx, vy |-> vy]
                     ELSE [x |-> x, y |-> y, vx |-> vx, vy |-> vy]
      s2 == IF s1.x > (WIDTH - BOID_EXT_WIDTH) * FP
              THEN [s1 EXCEPT !.x = (WIDTH - BOID_EXT_WIDTH) * FP, !.vx = -s1.vx]
              ELSE s1
      s3 == IF s2.y < 0 THEN [s2 EXCEPT !.y = 0, !.vx = -s2.vy] ELSE s2
      s4 == IF s3.y > (HEIGHT - BOID_EXT_HEIGHT) * FP
              THEN [s3 EXCEPT !.y = (HEIGHT - BOID_EXT_HEIGHT) * FP, !.vy = -s3.vy]
              ELSE s3
  IN  s4

\* mutant: hit adds to the health
HitRestores(g) == [g EXCEPT !.health = @ + 1]

\* Goal.hit
Hit(g) == [g EXCEPT !.health = @ - 1]

\* Unity.check_goal, the overlap test of line 220 for a Boid with center
\* (cx, cy) in a Unity of n Boids against Goal object g
Overlaps(cx, cy, n, g) ==
  /\ RangesMeet(TruncDiv(cx, FP) - n, TruncDiv(cx, FP) + n,
                g.circleX - GOAL_RADIUS, g.circleX + GOAL_RADIUS)
  /\ RangesMeet(TruncDiv(cy, FP) - n, TruncDiv(cy, FP) + n,
                g.circleY - GOAL_RADIUS, g.circleY + GOAL_RADIUS)

\* the Boids of "for _ in range(3): self.boids.append(Boid(circleX, circleY))"
Spawn(g, first, h, rad) ==
  [k \in 1..SPAWN_COUNT |-> NewBoid(first + k - 1, g.circleX, g.circleY, h, rad)]

\* ------------------------------------------------------ garbage collection
\* objects that the program can no longer reach are reset, so that two states
\* differ only in what the program can observe
GcUnity(un, uns, c) == [u \in UnityIds |-> IF InSeq(u, uns) \/ u = c THEN un[u] ELSE NoUnity]

GcGoal(gl, pool, un) ==
  [g \in GoalIds |-> IF InSeq(g, pool) \/ \E u \in UnityIds : un[u].goal = g
                       THEN gl[g] ELSE NoGoal]

GcLists(ls, un) ==
  [l \in ListIds |-> IF l = 0 \/ \E u \in UnityIds : un[u].boids = l THEN ls[l] ELSE <<>>]

FreeListIds(un) == {l \in ListIds : l # 0 /\ \A u \in UnityIds : un[u].boids # l}

\* an id that the history of the frame names is not handed out in that frame
FreeUnityIds(uns, c) ==
  {u \in UnityIds : ~InSeq(u, uns) /\ u # c /\ ~InSeq(u, frame.start) /\ ~InSeq(u, frame.seen)}

MinOf(S) == CHOOSE a \in S : \A b \in S : a <= b

\* ----------------------------------------------------------------- history
\* kind: the step; uid, child, gid, bid: the Unity, the new Unity, the Goal,
\* the Boid it acted on; n0, m0, pool0: the Unity's size and metabolised and the
\* pool's length before the step; before: the membership before the step;
\* stale: the Unity's target was not in the pool; hit, spent: check_goal hit
\* the target, and its health reached SPENT_HEALTH; emptyPick: a randint over
\* an empty pool; p.., q..: arguments and results of check_boundaries;
\* taken: the except branch of check_goal ran;
\* visited, forces: the Boids the loop of update reached and what it computed
\* for them; afterSplit, removed: update ran on a Unity that this pass of the
\* loop of update_boid_positions had split, had removed from the list
NoEv == [kind |-> "init", uid |-> 0, child |-> 0, gid |-> 0, bid |-> 0,
         forces |-> <<>>, afterSplit |-> FALSE, removed |-> FALSE,
         n0 |-> 0, m0 |-> 0, gen0 |-> 0, splits0 |-> 0, pool0 |-> 0,
         before |-> <<>>, visited |-> <<>>,
         hit |-> FALSE, spent |-> FALSE, stale |-> FALSE, emptyPick |-> FALSE,
         taken |-> FALSE,
         px |-> 0, py |-> 0, pvx |-> 0, pvy |-> 0,
         qx |-> 0, qy |-> 0, qvx |-> 0, qvy |-> 0]

\* start: the list of Unities when update_boid_positions began; seen: the
\* Unities its loop has bound; fed, advanced: update_goals,
\* update_boid_positions have returned in this frame
NoFrame == [start |-> <<>>, seen |-> <<>>, fed |-> FALSE, advanced |-> FALSE]

\* main, lines 161-163: the calls of one frame in their order
FrameOrder == <<"goals", "boids", "draw">>

\* the position of main after the call p has returned
After(p) ==
  LET k == CHOOSE j \in 1..Len(FrameOrder) : FrameOrder[j] = p
  IN  IF k = Len(FrameOrder) THEN "main" ELSE FrameOrder[k + 1]

\* --------------------------------------------------------------- main loop
\* an unhandled exception ends the program
Crashed == phase = "crashed"

\* main, lines 152-160: one pass of the loop body up to update_goals
MainSeed ==
  /\ phase = "main"
  /\ ticks < MaxTicks
  /\ LET seed == counter % SEED_EVERY = 0 /\ counter <= SEED_UNTIL
     IN  IF seed /\ unities = <<>>
           THEN \* unities[0] raises IndexError
                /\ phase' = "crashed"
                /\ ev' = [NoEv EXCEPT !.kind = "main"]
                /\ UNCHANGED <<lists, nextBoid, PURSUE, counter>>
           ELSE /\ \E h \in (IF seed THEN BoidHealths ELSE {0}),
                      rad \in (IF seed THEN BoidRadians ELSE {0}) :
                     IF seed
                       THEN /\ lists' = [lists EXCEPT ![unity[unities[1]].boids] =
                                           Append(@, NewBoid(nextBoid, BOID_X, BOID_Y, h, rad))]
                            /\ nextBoid' = nextBoid + 1
                       ELSE UNCHANGED <<lists, nextBoid>>
                /\ PURSUE' = (PURSUE \/ (seed /\ counter = SEED_UNTIL))
                /\ counter' = IF counter > SEED_UNTIL THEN counter ELSE counter + 1
                /\ phase' = FrameOrder[1]
                /\ ev' = [NoEv EXCEPT !.kind = "main"]
  /\ count0' = Len(goals)
  /\ frame' = NoFrame
  /\ idx' = 0
  /\ stage' = "next"
  /\ UNCHANGED <<goals, goal, unities, unity, ticks, cur, bidx>>

\* goals.append(Goal()) for each of the spots, each Goal a new object
RECURSIVE AddGoals(_, _)
AddGoals(w, spots) ==
  IF spots = <<>> THEN w
  ELSE LET id == MinOf(FreeGoalIds(w.pool, unity))
       IN  AddGoals([pool |-> Append(w.pool, id),
                     goal |-> [w.goal EXCEPT ![id] = NewGoal(GoalSpots[Head(spots)])]],
                    Tail(spots))

\* mutant: randint(0, 3)
ReplenishmentsWide(n) == IF n <= REPLENISH_AT THEN 0..(REPLENISH_MAX + 1) ELSE {0}

\* the number of Goals one call of update_goals may append to a pool of n
Replenishments(n) == IF n <= REPLENISH_AT THEN 0..REPLENISH_MAX ELSE {0}

\* app.update_goals
UpdateGoals ==
  /\ phase = "goals"
  /\ \E r \in Replenishments(Len(goals)) :
       \E spots \in [1..r -> 1..Len(GoalSpots)] :
         LET w == AddGoals([pool |-> goals, goal |-> goal], spots)
         IN  /\ goals' = w.pool
             /\ goal' = w.goal
  /\ phase' = After("goals")
  /\ frame' = [frame EXCEPT !.fed = TRUE]
  /\ ev' = [NoEv EXCEPT !.kind = "goals", !.pool0 = Len(goals)]
  /\ UNCHANGED <<unities, unity, lists, PURSUE, counter, ticks, nextBoid, idx, cur, stage,
                 bidx, count0>>

\* app.update_boid_positions: "for unity in unities" binds the next Unity, and
\* lines 73-74 remove it from the list when it is empty
NextUnity ==
  /\ phase = "boids"
  /\ stage = "next"
  /\ idx < Len(unities)
  /\ LET u == unities[idx + 1]
         uns == IF Size(u) = 0 THEN RemoveFirst(unities, u) ELSE unities
     IN  /\ cur' = u
         /\ unities' = uns
         /\ unity' = GcUnity(unity, uns, u)
         /\ goal' = GcGoal(goal, goals, unity')
         /\ lists' = GcLists(lists, unity')
         /\ ev' = [NoEv EXCEPT !.kind = "next", !.uid = u, !.n0 = Size(u)]
         /\ frame' = [frame EXCEPT !.seen = Append(@, u),
                                   !.start = IF idx = 0 THEN unities ELSE @]
  /\ idx' = idx + 1
  /\ stage' = "split"
  /\ UNCHANGED <<goals, PURSUE, counter, ticks, nextBoid, phase, bidx, count0>>

\* app.update_boid_positions: the iterator is exhausted
EndPass ==
  /\ phase = "boids"
  /\ stage = "next"
  /\ idx >= Len(unities)
  /\ phase' = After("boids")
  /\ frame' = [frame EXCEPT !.advanced = TRUE]
  /\ cur' = 0
  /\ unity' = GcUnity(unity, unities, 0)
  /\ goal' = GcGoal(goal, goals, unity')
  /\ lists' = GcLists(lists, unity')
  /\ ev' = [NoEv EXCEPT !.kind = "endpass"]
  /\ UNCHANGED <<goals, unities, PURSUE, counter, ticks, nextBoid, idx, stage, bidx, count0>>

\* ------------------------------------------------------ self-reproduction
Reverse(L) == [k \in 1..Len(L) |-> L[Len(L) + 1 - k]]

Rotate(L, d) == [k \in 1..Len(L) |-> L[((k - 1 + d) % Len(L)) + 1]]

\* np.random.shuffle(self.boids): the orders explored
Shuffles(L) == {L, Reverse(L), Rotate(L, Len(L) \div 2)}

\* mutant: the Unity keeps the Boid at mid as well
ParentHalfWithMid(S) == Slice(S, 0, (Len(S) \div 2) + 1)

\* Unity.split, line 77: the Boids the Unity keeps of its shuffled list S
ParentHalf(S) == Slice(S, 0, Len(S) \div 2)

\* mutant: the slice handed over starts inside the half that is kept
ChildHalfOverlapping(S) == Slice(S, (Len(S) \div 2) - 1, Len(S) - 1)

\* Unity.split, line 76: the Boids it hands over
ChildHalf(S) == Slice(S, (Len(S) \div 2) + 1, Len(S) - 1)

\* Unity.split, lines 80-81: boid.velocity / (i+1), i the 0-based position
Slowed(B) == [k \in 1..Len(B) |->
                [B[k] EXCEPT !.vx = TruncDiv(@, k), !.vy = TruncDiv(@, k)]]

\* mutant: the new Unity is given the parent's generation
ReproducedSameGeneration(u, l, g) == NewUnity(g, l, u.generation)

\* app.self_reproduction, line 57: the Unity made of the Boids handed over
\* (list object l) by the Unity u, with target g
Reproduced(u, l, g) == NewUnity(g, l, u.generation + 1)

\* app.update_boid_positions lines 75-76: self_reproduction(unity), that is
\* Unity.split, get_random_goal, Unity(goal, boids, generation+1) and append
SelfReproduction ==
  /\ phase = "boids"
  /\ stage = "split"
  /\ Size(cur) >= SPLIT_SIZE
  /\ FreeUnityIds(unities, cur) # {}
  /\ Cardinality(FreeListIds(unity)) >= 2
  /\ \E S \in Shuffles(Members(cur)) :
       LET u == unity[cur]
           lp == MinOf(FreeListIds(unity))
           un1 == [unity EXCEPT ![cur].boids = lp,
                                ![cur].radius = <<u.radius[1], 2 * u.radius[2]>>,
                                ![cur].splits = u.splits + 1]
           lc == MinOf(FreeListIds(un1))
           ls1 == [[[lists EXCEPT ![u.boids] = S] EXCEPT ![lp] = ParentHalf(S)]
                      EXCEPT ![lc] = Slowed(ChildHalf(S))]
           e == [NoEv EXCEPT !.kind = "split", !.uid = cur, !.n0 = Len(S),
                             !.gen0 = u.generation, !.splits0 = u.splits,
                             !.m0 = u.metabolised, !.pool0 = Len(goals),
                             !.before = Members(cur)]
       IN  IF goals = <<>>
             THEN \* get_random_goal: randint(0, -1) raises ValueError
                  /\ unity' = un1
                  /\ lists' = GcLists([[lists EXCEPT ![u.boids] = S]
                                          EXCEPT ![lp] = ParentHalf(S)], un1)
                  /\ phase' = "crashed"
                  /\ ev' = [e EXCEPT !.emptyPick = TRUE]
                  /\ UNCHANGED <<unities, stage>>
             ELSE \E k \in 1..Len(goals) :
                    LET nu == MinOf(FreeUnityIds(unities, cur))
                        un2 == [un1 EXCEPT ![nu] = Reproduced(u, lc, goals[k])]
                    IN  /\ unity' = un2
                        /\ unities' = Append(unities, nu)
                        /\ lists' = GcLists(ls1, un2)
                        /\ stage' = "update"
                        /\ phase' = phase
                        /\ ev' = [e EXCEPT !.child = nu, !.gid = goals[k]]
  /\ UNCHANGED <<goals, goal, PURSUE, counter, ticks, nextBoid, idx, cur, bidx, count0, frame>>

\* ------------------------------------------------------------ Unity.update
\* app.update_boid_positions line 77: unity.update(unities), the whole pass
Update ==
  /\ phase = "boids"
  /\ stage = "update" \/ (stage = "split" /\ Size(cur) < SPLIT_SIZE)
  /\ LET u == unity[cur]
         L == Members(cur)
     IN  \E lucky \in SUBSET Frail(L) :
           LET st == UpdateLoop([L |-> L, radius |-> u.radius, visited |-> <<>>,
                                 forces |-> <<>>],
                                1, u.boids, goal[u.goal], lucky)
           IN  /\ lists' = [lists EXCEPT ![u.boids] = st.L]
               /\ unity' = [unity EXCEPT ![cur].radius = st.radius]
               /\ ev' = [NoEv EXCEPT !.kind = "update", !.uid = cur, !.n0 = Len(L),
                                     !.gid = u.goal, !.before = L,
                                     !.visited = st.visited, !.forces = st.forces,
                                     !.afterSplit = (stage = "update"),
                                     !.removed = ~InSeq(cur, unities),
                                     !.stale = ~InSeq(u.goal, goals)]
  /\ stage' = "move"
  /\ bidx' = 0
  /\ UNCHANGED <<goals, goal, unities, PURSUE, counter, ticks, nextBoid, phase, idx, cur, count0,
                 frame>>

\* mutant: a Goal at SPENT_HEALTH is not yet spent
SpentBelow(g) == g.health < SPENT_HEALTH

\* Unity.check_goal, line 222: self.goal.health <= 250
Spent(g) == g.health <= SPENT_HEALTH

\* mutant: the test of line 210 is missing
StaleIgnored(g) == FALSE

\* Unity.check_goal, line 210: self.goal not in goals
Stale(g) == ~InSeq(g, goals)

\* -------------------------------------------------------------- Unity.move
\* Unity.move: one pass of the body of "for boid in self.boids", lines
\* 322-328, with check_obstacles, check_boundaries and check_goal.  A Boid
\* that check_goal appends is reached by the same loop later.
MoveBoid ==
  /\ phase = "boids"
  /\ stage = "move"
  /\ bidx < Size(cur)
  /\ nextBoid + SPAWN_COUNT <= MaxBoidId
  /\ LET u == unity[cur]
         l == u.boids
         L == lists[l]
         b == L[bidx + 1]
         \* lines 322-325
         ob == CheckObstacles(FP * b.x + b.vx, FP * b.y + b.vy, b, goal[u.goal])
         bd == CheckBoundaries(ob.x, ob.y, ob.vx, ob.vy)
         b1 == [b EXCEPT !.vx = bd.vx, !.vy = bd.vy]
         \* line 327-328: the Rect keeps the integer part
         b2 == [b1 EXCEPT !.x = TruncDiv(bd.x, FP), !.y = TruncDiv(bd.y, FP)]
         stale == Stale(u.goal)
         e == [NoEv EXCEPT !.kind = "move", !.uid = cur, !.bid = b.id, !.n0 = Len(L),
                           !.m0 = u.metabolised, !.pool0 = Len(goals),
                           !.before = L, !.stale = stale,
                           !.px = ob.x, !.py = ob.y, !.pvx = ob.vx, !.pvy = ob.vy,
                           !.qx = bd.x, !.qy = bd.y, !.qvx = bd.vx, !.qvy = bd.vy]
     IN  IF stale /\ goals = <<>>
           THEN \* line 211: randint(0, -1) raises ValueError
                /\ lists' = [lists EXCEPT ![l][bidx + 1] = b1]
                /\ phase' = "crashed"
                /\ ev' = [e EXCEPT !.gid = u.goal, !.emptyPick = TRUE]
                /\ UNCHANGED <<goals, goal, unity, nextBoid, bidx>>
           ELSE \E k1 \in (IF stale THEN 1..Len(goals) ELSE {1}) :
                  LET tgt == IF stale THEN goals[k1] ELSE u.goal
                      g == goal[tgt]
                      hit == Overlaps(b.cx, b.cy, Len(L), g)
                      spent == hit /\ Spent(Hit(g))
                      \* line 221: self.goal.hit()
                      gl1 == IF hit THEN [goal EXCEPT ![tgt] = Hit(g)] ELSE goal
                      \* lines 228-229: goals.remove raised, the target was not
                      \* in the pool
                      e1 == [e EXCEPT !.gid = tgt, !.hit = hit, !.spent = spent,
                                      !.taken = (spent /\ ~InSeq(tgt, goals))]
                  IN  IF ~spent
                        THEN /\ lists' = [lists EXCEPT ![l][bidx + 1] = b2]
                             /\ unity' = [unity EXCEPT ![cur].goal = tgt]
                             /\ goal' = GcGoal(gl1, goals, unity')
                             /\ bidx' = bidx + 1
                             /\ ev' = e1
                             /\ UNCHANGED <<goals, nextBoid, phase>>
                        ELSE \E h \in BoidHealths, rad \in BoidRadians :
                               LET \* lines 223-225
                                   L1 == L \o Spawn(g, nextBoid, h, rad)
                                   \* lines 226-229
                                   pool1 == IF InSeq(tgt, goals) THEN RemoveFirst(goals, tgt) ELSE goals
                                   un1 == [unity EXCEPT ![cur].goal = tgt,
                                                        ![cur].radius = HalfSize(L1)]
                               IN  /\ goals' = pool1
                                   /\ nextBoid' = nextBoid + SPAWN_COUNT
                                   /\ IF pool1 = <<>>
                                        THEN \* line 230: randint(0, -1) raises ValueError
                                             /\ lists' = [lists EXCEPT ![l] = [L1 EXCEPT ![bidx + 1] = b1]]
                                             /\ unity' = un1
                                             /\ goal' = GcGoal(gl1, pool1, un1)
                                             /\ phase' = "crashed"
                                             /\ ev' = [e1 EXCEPT !.emptyPick = TRUE]
                                             /\ UNCHANGED bidx
                                        ELSE \E k2 \in 1..Len(pool1) :
                                               /\ lists' = [lists EXCEPT ![l] = [L1 EXCEPT ![bidx + 1] = b2]]
                                               /\ unity' = [un1 EXCEPT ![cur].goal = pool1[k2],
                                                                       ![cur].metabolised = u.metabolised + 1]
                                               /\ goal' = GcGoal(gl1, pool1, unity')
                                               /\ bidx' = bidx + 1
                                               /\ ev' = e1
                                               /\ UNCHANGED phase
  /\ UNCHANGED <<unities, PURSUE, counter, ticks, idx, cur, stage, count0, frame>>

\* Unity.move: the iterator over self.boids is exhausted, move returns
EndMove ==
  /\ phase = "boids"
  /\ stage = "move"
  /\ bidx >= Size(cur)
  /\ stage' = "next"
  /\ ev' = [NoEv EXCEPT !.kind = "endmove", !.uid = cur, !.n0 = Size(cur)]
  /\ UNCHANGED <<goals, goal, unities, unity, lists, PURSUE, counter, ticks, nextBoid,
                 phase, idx, cur, bidx, count0, frame>>

\* ---------------------------------------------------------- app.draw_window
PI == 314
THIRD_PI == 105
HALF_PI == 157

\* math.cos and math.sin of an angle in 1/100 rad, rounded to -1, 0 or 1
CosR(r) == IF r < THIRD_PI \/ r > TWO_PI - THIRD_PI THEN 1
           ELSE IF Abs(r - PI) < THIRD_PI THEN -1 ELSE 0

SinR(r) == CosR((r + TWO_PI - HALF_PI) % TWO_PI)

\* lines 126-129 for one Boid of a Unity of the given radius
Drawn(b, radius) ==
  LET rad == (b.rad + ANGULAR_V) % TWO_PI
  IN  [b EXCEPT !.rad = rad,
                !.x = TruncDiv(b.x * radius[2] + CosR(rad) * radius[1], radius[2]),
                !.y = TruncDiv(b.y * radius[2] + SinR(rad) * radius[1], radius[2])]

\* "for unity in unities" of draw_window, from the 1-based position k on
RECURSIVE DrawLoop(_, _)
DrawLoop(ls, k) ==
  IF k > Len(unities) THEN ls
  ELSE LET u == unity[unities[k]]
       IN  DrawLoop([ls EXCEPT ![u.boids] =
                       [j \in 1..Len(@) |-> Drawn(@[j], u.radius)]], k + 1)

\* main line 163: draw_window(), then the loop condition
DrawWindow ==
  /\ phase = "draw"
  /\ lists' = DrawLoop(lists, 1)
  /\ ticks' = ticks + 1
  /\ phase' = After("draw")
  /\ ev' = [NoEv EXCEPT !.kind = "draw"]
  /\ UNCHANGED <<goals, goal, unities, unity, PURSUE, counter, nextBoid, idx, cur, stage, bidx,
                 count0, frame>>

\* ------------------------------------------------------------ initial states
\* The program starts in StartWorld.  The other worlds are states at the top
\* of the main loop that a longer run passes through (hundreds of frames are
\* needed to wear a Goal down to SPENT_HEALTH or a Boid to its death); every
\* value in them is one the code maintains: pool Goals above SPENT_HEALTH,
\* members alive and inside the window, velocities within MAX_VEL, the
\* counters consistent with the sizes.
GoalHeap(recs) == [g \in GoalIds |-> IF g <= Len(recs) THEN recs[g] ELSE NoGoal]

UnityHeap(recs) == [u \in UnityIds |-> IF u <= Len(recs) THEN recs[u] ELSE NoUnity]

ListHeap(ls) == [l \in ListIds |-> IF l < Len(ls) THEN ls[l + 1] ELSE <<>>]

GoalAt(spot, h) == [NewGoal(GoalSpots[spot]) EXCEPT !.health = h]

BoidAt(id, x, y, vx, vy, h) == [NewBoid(id, x, y, h, 0) EXCEPT !.vx = vx, !.vy = vy]

\* a Unity that has lived: its membership list l, its counters
UnityOf(g, l, n, gen, spl, met) ==
  [NewUnity(g, l, gen) EXCEPT !.radius = <<n, 2>>, !.splits = spl, !.metabolised = met]

World(pool, gl, uns, un, ls, pu, ctr, nb) ==
  /\ goals = pool
  /\ goal = GoalHeap(gl)
  /\ unities = uns
  /\ unity = UnityHeap(un)
  /\ lists = ListHeap(ls)
  /\ PURSUE = pu
  /\ counter = ctr
  /\ nextBoid = nb
  /\ ticks = 0
  /\ phase = "main"
  /\ idx = 0
  /\ cur = 0
  /\ stage = "next"
  /\ bidx = 0
  /\ count0 = Len(pool)
  /\ frame = NoFrame
  /\ ev = NoEv

\* app.py lines 35-37 and main line 150: five Goals, one Unity on the default
\* list
StartWorld ==
  \E s \in 0..(Len(GoalSpots) - 1), k \in 1..INIT_GOALS :
    World([i \in 1..INIT_GOALS |-> i],
          [i \in 1..INIT_GOALS |-> NewGoal(GoalSpots[((i + s) % Len(GoalSpots)) + 1])],
          <<1>>, <<NewUnity(k, 0, 0)>>, <<>>, FALSE, 0, 1)

\* a herd of n Boids around (300, 300)
Herd(first, n, h) ==
  [i \in 1..n |-> BoidAt(first + i - 1, 292 + 4 * (i % 5), 292 + 4 * (i \div 5), 5, -5, h + i)]

\* frame 100: the tenth Boid was seeded at counter 90, PURSUE is switched on
SwitchWorld ==
  World(<<1, 2, 3, 4, 5>>,
        <<GoalAt(1, 900), GoalAt(2, 1000), GoalAt(2, 1000), GoalAt(1, 1000), GoalAt(2, 1000)>>,
        <<1>>, <<NewUnity(3, 0, 0)>>, <<Herd(1, 10, 950)>>, FALSE, SEED_UNTIL, 11)

\* the first Unity (11 seeded Boids and one metabolised Goal) feeds on a Goal
\* that is nearly spent; p Goals are left in the pool
FeedingWorld ==
  \E p \in {1, 2}, h \in {SPENT_HEALTH + 1, SPENT_HEALTH + 2} :
    World([i \in 1..p |-> i],
          [i \in 1..p |-> IF i = 1 THEN GoalAt(1, h) ELSE GoalAt(2, GOAL_HEALTH)],
          <<1>>, <<UnityOf(1, 0, 14, 0, 0, 1)>>, <<Herd(1, 14, 500)>>,
          TRUE, SEED_UNTIL + 1, 15)

\* the first Unity has grown to SPLIT_SIZE or beyond in the previous frame
GrownWorld ==
  \E n \in {SPLIT_SIZE, SPLIT_SIZE + 1} :
    World(<<1, 2, 3>>, <<GoalAt(1, 600), GoalAt(2, GOAL_HEALTH), GoalAt(1, GOAL_HEALTH)>>,
          <<1>>, <<UnityOf(1, 0, n, 0, 0, n - 17)>>, <<Herd(1, n, 500)>>,
          TRUE, SEED_UNTIL + 1, n + 7)

\* late in a run: n Boids are left in the first Unity, about to die
SurvivorWorld ==
  \E n \in {1, 3} :
    World(<<1, 2>>, <<GoalAt(2, 700), GoalAt(2, GOAL_HEALTH)>>,
          <<1>>, <<UnityOf(1, 0, n, 0, 0, 0)>>,
          <<[i \in 1..n |-> BoidAt(i, 298 + i, 300, 5, 5, IF i = 3 THEN 400 ELSE 1)]>>,
          TRUE, SEED_UNTIL + 1, 12)

\* a Unity crowded into a corner of the window: the near one (0, 0) or the far
\* one (WIDTH - BOID_EXT_WIDTH, HEIGHT - BOID_EXT_HEIGHT)
CornerWorld ==
  \E far \in BOOLEAN :
    LET bx == IF far THEN WIDTH - BOID_EXT_WIDTH - 1 ELSE 1
        by == IF far THEN HEIGHT - BOID_EXT_HEIGHT - 1 ELSE 1
        sg == IF far THEN -1 ELSE 1
    IN  World(<<1, 2, 3, 4>>,
              <<GoalAt(2, 800), GoalAt(2, GOAL_HEALTH), GoalAt(1, GOAL_HEALTH), GoalAt(2, GOAL_HEALTH)>>,
              <<1>>, <<UnityOf(IF far THEN 1 ELSE 3, 0, 5, 0, 0, 0)>>,
              <<<<BoidAt(1, bx, by, -10 * sg, -5 * sg, 900),
                  BoidAt(2, bx + 3 * sg, by + 2 * sg, 5, 5, 800),
                  BoidAt(3, bx + 2 * sg, by + 4 * sg, 5, -5, 700),
                  BoidAt(4, bx + 4 * sg, by + sg, 0, 0, 600),
                  BoidAt(5, bx + 5 * sg, by + 5 * sg, -5, 5, 500)>>>>,
              TRUE, SEED_UNTIL + 1, 12)

\* after a split and many deaths: parent and child with the same target, the
\* parent feeding on it, the child on its way to it
TwoUnitiesWorld ==
  \E h \in {SPENT_HEALTH + 1, SPENT_HEALTH + 3} :
    World(<<1, 2>>, <<GoalAt(1, h), GoalAt(2, GOAL_HEALTH)>>,
          <<1, 2>>, <<UnityOf(1, 1, 2, 0, 1, 3), UnityOf(1, 2, 2, 1, 0, 0)>>,
          <<<<>>, Herd(1, 2, 300),
            [i \in 1..2 |-> BoidAt(20 + i, 900 + 4 * i, 500, -5, -5, 200 + i)]>>,
          TRUE, SEED_UNTIL + 1, 30)

\* one of the first frames: the first Boid, alone, has been carried away from
\* (BOID_X, BOID_Y) by draw_window; its center is still where it was created
LoneWorld ==
  World(<<1, 2, 3, 4, 5>>,
        <<GoalAt(1, GOAL_HEALTH), GoalAt(2, GOAL_HEALTH), GoalAt(2, GOAL_HEALTH),
          GoalAt(1, GOAL_HEALTH), GoalAt(2, GOAL_HEALTH)>>,
        <<1>>, <<NewUnity(2, 0, 0)>>,
        <<<<[BoidAt(1, BOID_X + 15, BOID_Y - 10, MIN_VEL_FP, MIN_VEL_FP, 2000)
              EXCEPT !.cx = BOID_X * FP, !.cy = BOID_Y * FP]>>>>,
        FALSE, 5, 2)

\* after a split and many deaths: the parent died out in the previous frame
\* and is still the first Unity of the list, the child lives
ExtinctWorld ==
  World(<<1, 2, 3, 4>>,
        <<GoalAt(1, 600), GoalAt(2, GOAL_HEALTH), GoalAt(1, GOAL_HEALTH), GoalAt(2, GOAL_HEALTH)>>,
        <<1, 2>>, <<UnityOf(2, 1, 0, 0, 1, 3), UnityOf(1, 2, 2, 1, 0, 0)>>,
        <<<<>>, <<>>, Herd(21, 2, 200)>>,
        TRUE, SEED_UNTIL + 1, 30)

Init == StartWorld \/ SwitchWorld \/ FeedingWorld \/ GrownWorld \/ SurvivorWorld
        \/ CornerWorld \/ TwoUnitiesWorld \/ LoneWorld \/ ExtinctWorld

Next == MainSeed \/ UpdateGoals \/ NextUnity \/ SelfReproduction \/ Update
        \/ MoveBoid \/ EndMove \/ EndPass \/ DrawWindow

Spec == Init /\ [][Next]_vars

\* =============================================================== properties
\* the last step was self_reproduction and it created the new Unity
SplitDone == ev.kind = "split" /\ ev.child # 0

\* C1: a split of a Unity of size N leaves two Unities whose sizes add up to N:
\* every Boid of the parent before the split is afterwards in exactly one of
\* the parent and the new Unity.
C1_SplitKeepsEveryAgent ==
  SplitDone =>
    /\ Size(ev.uid) + Size(ev.child) = ev.n0
    /\ BoidIdsOf(Members(ev.uid)) \cup BoidIdsOf(Members(ev.child)) = BoidIdsOf(ev.before)
    /\ BoidIdsOf(Members(ev.uid)) \cap BoidIdsOf(Members(ev.child)) = {}

\* C2: on every split the new Unity has the parent's generation + 1, splits 0
\* and metabolised 0, the parent's splits grows by exactly 1 and its generation
\* stays; no other step puts a new Unity into the World or changes a
\* generation.
C2_SplitCounters ==
  [][/\ (ev'.kind = "split" /\ ev'.child # 0) =>
          /\ unity'[ev'.child].generation = unity[cur].generation + 1
          /\ unity'[ev'.child].splits = 0
          /\ unity'[ev'.child].metabolised = 0
          /\ unity'[cur].splits = unity[cur].splits + 1
          /\ unity'[cur].generation = unity[cur].generation
          /\ unities' = Append(unities, ev'.child)
     /\ ev'.kind # "split" =>
          \A u \in UnityIds : InSeq(u, unities') => InSeq(u, unities)
     /\ \A u \in UnityIds :
          InSeq(u, unities) /\ InSeq(u, unities') =>
            unity'[u].generation = unity[u].generation
    ]_vars

C2_Witness ==
  /\ SplitDone
  /\ Size(ev.child) > 0
  /\ unity[ev.child].generation = ev.gen0 + 1
  /\ unity[ev.uid].splits = ev.splits0 + 1

\* C3: when check_goal hits the target and the target's health drops to
\* SPENT_HEALTH or below, the call ends with 3 more Boids in the Unity,
\* metabolised one higher and the Goal out of the pool, whatever the size of
\* the pool.
C3_MetabolismCompletes ==
  (ev.kind = "move" /\ ev.spent) =>
    /\ ~Crashed
    /\ Size(ev.uid) = ev.n0 + SPAWN_COUNT
    /\ unity[ev.uid].metabolised = ev.m0 + 1
    /\ ~InSeq(ev.gid, goals)

\* the edges of the window in fixed point
MaxX == (WIDTH - BOID_EXT_WIDTH) * FP

MaxY == (HEIGHT - BOID_EXT_HEIGHT) * FP

Clamp(a, hi) == IF a < 0 THEN 0 ELSE IF a > hi THEN hi ELSE a

\* C4: check_boundaries clamps a coordinate outside the window to the edge it
\* crossed and flips the sign of the velocity component of that axis only.
C4_BounceFlipsOwnAxis ==
  ev.kind = "move" =>
    /\ ev.qx = Clamp(ev.px, MaxX)
    /\ ev.qy = Clamp(ev.py, MaxY)
    /\ ev.qvx = (IF ev.px < 0 \/ ev.px > MaxX THEN -ev.pvx ELSE ev.pvx)
    /\ ev.qvy = (IF ev.py < 0 \/ ev.py > MaxY THEN -ev.pvy ELSE ev.pvy)

\* C5: in every state no two Unities of the World share a membership list or
\* a Boid.
C5_ExclusiveMembership ==
  \A i, j \in 1..Len(unities) :
    i # j =>
      /\ unity[unities[i]].boids # unity[unities[j]].boids
      /\ BoidIdsOf(Members(unities[i])) \cap BoidIdsOf(Members(unities[j])) = {}

C5_Witness ==
  /\ SplitDone
  /\ Len(unities) >= 2
  /\ Size(ev.uid) > 0
  /\ Size(ev.child) > 0

\* C6: no random target selection (get_random_goal, check_goal) is ever made
\* over an empty pool.
C6_PoolNeverEmptyAtSelection == ~ev.emptyPick

\* C7: whenever update computes the pursuit force, the Unity's target is in
\* the pool.
C7_PursuedTargetInPool ==
  (ev.kind = "update" /\ ev.visited # <<>>) => ~ev.stale

\* C8: when update_boid_positions returns, no Unity of the World is empty.
C8_NoEmptyUnityAfterPass ==
  ev.kind = "endpass" => \A k \in 1..Len(unities) : Size(unities[k]) > 0

\* C9 as claimed: a frame that starts with c <= REPLENISH_AT Goals ends its
\* advance (update_goals and the steps of all Unities) with c + r Goals, r in
\* 0..REPLENISH_MAX.
C9_CountAfterAdvance ==
  (ev.kind = "endpass" /\ count0 <= REPLENISH_AT) =>
    Len(goals) - count0 \in 0..REPLENISH_MAX

\* C9 as amended: a call of update_goals on a pool of c <= REPLENISH_AT Goals
\* leaves c + r Goals, r in 0..REPLENISH_MAX, and a larger pool unchanged.
C9_CountAfterReplenishment ==
  ev.kind = "goals" =>
    /\ ev.pool0 = count0
    /\ ev.pool0 <= REPLENISH_AT => Len(goals) - ev.pool0 \in 0..REPLENISH_MAX
    /\ ev.pool0 > REPLENISH_AT => Len(goals) = ev.pool0

C9_Witness ==
  /\ ev.kind = "goals"
  /\ ev.pool0 <= REPLENISH_AT
  /\ Len(goals) = ev.pool0 + REPLENISH_MAX

Inside(b) ==
  /\ 0 <= b.x /\ b.x <= WIDTH - BOID_EXT_WIDTH
  /\ 0 <= b.y /\ b.y <= HEIGHT - BOID_EXT_HEIGHT

\* C10: every position that move commits lies in the window: during a move
\* pass the Boids the loop has passed, and after it every Boid of the Unity
\* (also those spawned in the pass), have 0 <= x <= WIDTH - BOID_EXT_WIDTH and
\* 0 <= y <= HEIGHT - BOID_EXT_HEIGHT.
C10_CommittedInsideWindow ==
  /\ (stage = "move" /\ cur # 0) =>
       \A k \in 1..Min2(bidx, Size(cur)) : Inside(Members(cur)[k])
  /\ ev.kind = "endmove" =>
       \A k \in 1..Size(ev.uid) : Inside(Members(ev.uid)[k])

C10_Witness ==
  /\ ev.kind = "endmove"
  /\ \E k \in 1..Size(ev.uid) :
       /\ Members(ev.uid)[k].x = WIDTH - BOID_EXT_WIDTH
       /\ Members(ev.uid)[k].y = HEIGHT - BOID_EXT_HEIGHT

\* the Goal object g exists: it is in the pool or the target of a Unity
Known(g) == InSeq(g, goals) \/ \E u \in UnityIds : unity[u].goal = g

\* C11: the health of a Goal never increases: a step changes it only by a
\* hit of check_goal, which lowers it by exactly 1, so a Goal at or below
\* SPENT_HEALTH stays there.
C11_HealthNeverIncreases ==
  [][\A g \in GoalIds :
       (Known(g) /\ Known(g)') =>
         /\ goal'[g].health <= goal[g].health
         /\ goal'[g].health # goal[g].health =>
              /\ ev'.kind = "move" /\ ev'.hit /\ ev'.gid = g
              /\ goal'[g].health = goal[g].health - 1
         /\ (ev'.kind = "move" /\ ev'.hit /\ ev'.gid = g) =>
              goal'[g].health = goal[g].health - 1
         /\ goal[g].health <= SPENT_HEALTH => goal'[g].health <= SPENT_HEALTH
    ]_vars

C11_Witness ==
  /\ ev.kind = "move" /\ ev.hit /\ ev.spent /\ ~Crashed
  /\ Known(ev.gid)
  /\ goal[ev.gid].health = SPENT_HEALTH

WithinLimit(b) == Abs(b.vx) <= MAX_VEL * FP /\ Abs(b.vy) <= MAX_VEL * FP

\* C12: limit_velocity leaves each velocity component within MAX_VEL and no
\* other step breaks it: in every state, so at the end of every update, move
\* and split, every Boid of every Unity has |vx| <= MAX_VEL and |vy| <= MAX_VEL.
C12_VelocityWithinLimit ==
  \A k \in 1..Len(unities) :
    \A j \in 1..Size(unities[k]) : WithinLimit(Members(unities[k])[j])

\* an update in which the acceleration alone exceeded what the limit allows
C12_Witness ==
  /\ ev.kind = "update"
  /\ \E j \in 1..Size(ev.uid) :
       LET b == Members(ev.uid)[j]
       IN  /\ Abs(b.ax) > 2 * MAX_VEL * FP /\ Abs(b.vx) = MAX_VEL * FP
           /\ Abs(b.ay) > 2 * MAX_VEL * FP /\ Abs(b.vy) = MAX_VEL * FP

\* C13: whenever update computes cohesion for a Boid while the Unity has
\* exactly one Boid, the force is the zero vector and the Boid's center is
\* left as it was.
C13_LoneCohesionIsZero ==
  ev.kind = "update" =>
    \A k \in 1..Len(ev.forces) :
      ev.forces[k].n = 1 =>
        /\ ev.forces[k].x = 0 /\ ev.forces[k].y = 0
        /\ ev.forces[k].cx = ev.forces[k].cx0 /\ ev.forces[k].cy = ev.forces[k].cy0

\* a lone Boid whose center is far from its position
C13_Witness ==
  /\ ev.kind = "update"
  /\ Size(ev.uid) = 1
  /\ Len(ev.forces) = 1 /\ ev.forces[1].n = 1 /\ ev.forces[1].member
  /\ Abs(Members(ev.uid)[1].cx - FP * Members(ev.uid)[1].x) >= COHESION_DIV
  /\ Members(ev.uid)[1].ax = 0

\* the number of times the Unity u was bound by the loop in this frame
Visits(u) == Cardinality({k \in 1..Len(frame.seen) : frame.seen[k] = u})

\* C14: when update_boid_positions returns, every Unity that was in the list
\* when it began has been visited by its loop exactly once, also when Unities
\* were removed from or appended to the list during the pass.
C14_EveryUnityVisitedOnce ==
  ev.kind = "endpass" =>
    \A k \in 1..Len(frame.start) : Visits(frame.start[k]) = 1

\* C15: each Unity the loop visits is removed, or split, or runs update and
\* move: update never runs on a Unity that the same pass of the loop has
\* split or has removed from the list.
C15_OneOfRemoveSplitUpdate ==
  ev.kind = "update" => (~ev.afterSplit /\ ~ev.removed)

\* C16: in every frame update_goals runs only after update_boid_positions has
\* returned (the steps of all Unities are complete), and draw_window runs only
\* after both have returned.
C16_AdvanceBeforeReplenishment ==
  /\ ev.kind = "goals" => frame.advanced
  /\ ev.kind = "draw" => (frame.fed /\ frame.advanced)

\* C17: one update pass decrements the health of every Boid that was a member
\* when it began exactly once, recomputes acceleration and velocity of every
\* member that survives exactly once, and computes forces only for Boids that
\* are still members.
C17_UpdateReachesEveryMember ==
  ev.kind = "update" =>
    /\ ev.visited = [k \in 1..Len(ev.before) |-> ev.before[k].id]
    /\ \A j \in 1..Size(ev.uid) :
         Cardinality({k \in 1..Len(ev.forces) :
                        ev.forces[k].id = Members(ev.uid)[j].id}) = 1
    /\ \A k \in 1..Len(ev.forces) : ev.forces[k].member

\* C18: at the end of every update pass no member of the Unity has health
\* <= 0, and every Boid the pass removed is one whose health had reached <= 0.
C18_NoDeadMemberAfterUpdate ==
  ev.kind = "update" =>
    /\ \A j \in 1..Size(ev.uid) : Members(ev.uid)[j].health > 0
    /\ \A k \in 1..Len(ev.before) :
         ev.before[k].id \notin BoidIdsOf(Members(ev.uid)) =>
           \E m \in 1..Len(ev.forces) :
             ev.forces[m].id = ev.before[k].id /\ ev.forces[m].health <= 0

\* a pass in which a Boid died and another stayed
C18_Witness ==
  /\ ev.kind = "update"
  /\ 0 < Size(ev.uid) /\ Size(ev.uid) < ev.n0
  /\ \E m \in 1..Len(ev.forces) : ev.forces[m].health <= 0 /\ ~ev.forces[m].member

\* C19: a frame whose update_goals has run goes on to the end of
\* update_boid_positions: no step of it ends in an unhandled exception.
C19_TickRunsToCompletion == frame.fed => ~Crashed

\* C20: whenever check_goal returns normally, the target of the Unity is in
\* the pool.
C20_TargetInPoolAfterCheckGoal ==
  (ev.kind = "move" /\ ~Crashed) => InSeq(unity[ev.uid].goal, goals)

\* check_goal found the target missing from the pool and replaced it
C20_Witness ==
  /\ ev.kind = "move" /\ ~Crashed /\ ev.stale
  /\ InSeq(unity[ev.uid].goal, goals)

\* the radius of the Unity u is size()/2
RadiusIsHalfSize(u) == 2 * unity[u].radius[1] = Size(u) * unity[u].radius[2]

\* C21: right after an update pass in which Boids died, and right after a
\* check_goal that metabolised the target and added Boids, the radius of the
\* Unity is size()/2.
C21_RadiusFollowsMembership ==
  /\ (ev.kind = "update" /\ Size(ev.uid) # ev.n0) => RadiusIsHalfSize(ev.uid)
  /\ (ev.kind = "move" /\ ev.spent) =>
       (Size(ev.uid) = ev.n0 + SPAWN_COUNT /\ RadiusIsHalfSize(ev.uid))

\* a metabolism that left an odd number of Boids
C21_Witness ==
  /\ ev.kind = "move" /\ ev.spent
  /\ Size(ev.uid) = ev.n0 + SPAWN_COUNT
  /\ Size(ev.uid) % 2 = 1
  /\ unity[ev.uid].radius = <<Size(ev.uid), 2>>

\* the Boids of the parent before the split that are in neither Unity after it
Dropped == BoidIdsOf(ev.before) \ (BoidIdsOf(Members(ev.uid)) \cup BoidIdsOf(Members(ev.child)))

C23_PoolGoalsUnspent ==
  /\ \A k \in 1..Len(goals) : goal[goals[k]].health > SPENT_HEALTH
  /\ ~ev.taken

\* a metabolism that removed its target from a pool that still has Goals
C23_Witness ==
  /\ ev.kind = "move" /\ ev.spent /\ ~ev.taken /\ ~Crashed
  /\ ~InSeq(ev.gid, goals)
  /\ Len(goals) = ev.pool0 - 1
  /\ goals # <<>>

====
